---------------------------- MODULE Spec2Model ----------------------------
(***************************************************************************)
(* Model of deepracer/tracks/track_utils.py: TrackIO (track name to file   *)
(* resolution), Track (fields derived from a waypoint array) and           *)
(* GeometryUtils (2D vector and line operations).                          *)
(*                                                                         *)
(* Numbers.  The code computes in IEEE doubles through numpy.  The model   *)
(* computes exactly in the field Q(sqrt r): a number is                    *)
(*     [k |-> "fin", a, b, d, r]   meaning (a + b*sqrt(r)) / d             *)
(* with d > 0, gcd(a,b,d) = 1, r square-free (r = 1 and b = 0 for a        *)
(* rational), or the IEEE specials  k = "nan"  and  k = "inf"  (a = sign). *)
(* One call of the code involves at most one radical (a vector length), so *)
(* two operands never carry different radicals.  Division follows numpy:   *)
(* 0/0 is nan, x/0 is an infinity, and no exception is raised.             *)
(***************************************************************************)
EXTENDS Integers, Sequences, FiniteSets, TLC

VARIABLES pc, op, args, result

vars == <<pc, op, args, result>>

---------------------------------------------------------------------------
(* Bounds of the model *)

\* waypoint records per track: 0..MaxN
MaxN == 3
\* the four points of crossing_point_for_two_lines have coordinates in
\* 0..MaxCoord
MaxCoord == 2
\* the points of the three-point operations have coordinates in
\* 0..MaxLineCoord, vector arguments have components in
\* -MaxLineCoord..MaxLineCoord
MaxLineCoord == 3
\* a track name is made of at most MaxChunks chunks
MaxChunks == 3

---------------------------------------------------------------------------
(* Integer helpers *)

Abs(n) == IF n < 0 THEN -n ELSE n

Sgn(n) == IF n < 0 THEN -1 ELSE IF n > 0 THEN 1 ELSE 0

RECURSIVE Gcd(_, _)
Gcd(m, n) == IF n = 0 THEN Abs(m) ELSE Gcd(Abs(n), Abs(m) % Abs(n))

\* the largest m with m*m dividing n (n > 0)
SquarePart(n) == CHOOSE m \in 1..n : /\ n % (m * m) = 0
                                     /\ \A q \in (m + 1)..n : n % (q * q) # 0

\* floor of the square root of n (n >= 0)
ISqrt(n) == CHOOSE m \in 0..n : m * m <= n /\ (m + 1) * (m + 1) > n

---------------------------------------------------------------------------
(* Numbers: numpy float arithmetic, computed exactly *)

NaN == [k |-> "nan", a |-> 0, b |-> 0, d |-> 1, r |-> 1]

Inf(s) == [k |-> "inf", a |-> s, b |-> 0, d |-> 1, r |-> 1]

\* float('inf')
PosInf == Inf(1)

\* (a + b*sqrt(r)) / d in canonical form; d # 0, r square-free
Fin(a, b, d, r) ==
    LET g == Gcd(Gcd(a, b), d)
        s == IF d < 0 THEN -1 ELSE 1
    IN  [k |-> "fin", a |-> (s * a) \div g, b |-> (s * b) \div g,
         d |-> (s * d) \div g, r |-> IF b = 0 THEN 1 ELSE r]

\* m * sqrt(q) / d, a rational when q = 1
Root(m, q, d) == IF q = 1 THEN Fin(m, 0, d, 1) ELSE Fin(0, m, d, q)

Q(n) == Fin(n, 0, 1, 1)

IsFin(x) == x.k = "fin"
IsNaN(x) == x.k = "nan"
IsInf(x) == x.k = "inf"
IsRational(x) == x.k = "fin" /\ x.b = 0

\* the radical two operands share
Rad(x, y) == IF x.b # 0 THEN x.r ELSE y.r

\* sign of a + b*sqrt(r), r > 0
SignAB(a, b, r) ==
    IF b = 0 THEN Sgn(a)
    ELSE IF a = 0 THEN Sgn(b)
    ELSE IF Sgn(a) = Sgn(b) THEN Sgn(a)
    ELSE Sgn(a) * Sgn(a * a - b * b * r)

Sign(x) == IF IsFin(x) THEN SignAB(x.a, x.b, x.r) ELSE x.a

IsZero(x) == IsFin(x) /\ x.a = 0 /\ x.b = 0

Neg(x) == IF IsFin(x) THEN Fin(-x.a, -x.b, x.d, x.r)
          ELSE IF IsInf(x) THEN Inf(-x.a) ELSE NaN

Add(x, y) ==
    IF IsNaN(x) \/ IsNaN(y) THEN NaN
    ELSE IF IsInf(x) /\ IsInf(y) THEN (IF x.a = y.a THEN x ELSE NaN)
    ELSE IF IsInf(x) THEN x
    ELSE IF IsInf(y) THEN y
    ELSE Fin(x.a * y.d + y.a * x.d, x.b * y.d + y.b * x.d, x.d * y.d, Rad(x, y))

Sub(x, y) == Add(x, Neg(y))

Mul(x, y) ==
    IF IsNaN(x) \/ IsNaN(y) THEN NaN
    ELSE IF IsInf(x) \/ IsInf(y)
         THEN (IF Sign(x) * Sign(y) = 0 THEN NaN ELSE Inf(Sign(x) * Sign(y)))
    ELSE LET r == Rad(x, y)
         IN  Fin(x.a * y.a + x.b * y.b * r, x.a * y.b + x.b * y.a,
                 x.d * y.d, r)

\* numpy true division: no exception on a zero divisor
Div(x, y) ==
    IF IsNaN(x) \/ IsNaN(y) THEN NaN
    ELSE IF IsInf(y) THEN (IF IsInf(x) THEN NaN ELSE Q(0))
    ELSE IF IsInf(x) THEN (IF Sign(y) < 0 THEN Inf(-x.a) ELSE x)
    ELSE IF IsZero(y) THEN (IF IsZero(x) THEN NaN ELSE Inf(Sign(x)))
    ELSE LET r == Rad(x, y)
             n == y.a * y.a - y.b * y.b * r
         IN  Fin((x.a * y.a - x.b * y.b * r) * y.d,
                 (x.b * y.a - x.a * y.b) * y.d,
                 x.d * n, r)

\* square root of a rational
Sqrt(x) ==
    IF IsNaN(x) THEN NaN
    ELSE IF IsInf(x) THEN (IF x.a > 0 THEN x ELSE NaN)
    ELSE IF x.a < 0 THEN NaN
    ELSE IF x.a = 0 THEN Q(0)
    ELSE LET n == x.a * x.d
             m == SquarePart(n)
         IN  Root(m, n \div (m * m), x.d)

\* nearest integer, ties to the even one (C rint), of a finite number
RInt(x) ==
    IF x.b = 0
    THEN LET f == (2 * x.a + x.d) \div (2 * x.d)
         IN  IF (2 * x.a + x.d) % (2 * x.d) = 0 /\ f % 2 = 1 THEN f - 1 ELSE f
    ELSE LET e == (x.a + Sgn(x.b) * ISqrt(x.b * x.b * x.r)) \div x.d
         IN  CHOOSE n \in (e - 2)..(e + 2) :
                 /\ Sign(Sub(Mul(Q(2), Sub(x, Q(n))), Q(1))) < 0
                 /\ Sign(Add(Mul(Q(2), Sub(x, Q(n))), Q(1))) > 0

\* Round3 keeping 2 decimals
Round3_TwoDecimals(x) ==
    IF IsFin(x) THEN Fin(RInt(Mul(x, Q(100))), 0, 100, 1) ELSE x

\* np.round(x, 3): rint(x * 1000) / 1000; nan and the infinities pass through
Round3(x) == IF IsFin(x) THEN Fin(RInt(Mul(x, Q(1000))), 0, 1000, 1) ELSE x

---------------------------------------------------------------------------
(* Angles: math.atan2 and np.degrees *)

\* math.atan2(y, x) of rationals, kept exactly as the direction (s, c) of the
\* angle: s has the sign of the sine, c of the cosine, gcd(s, c) = 1.
\* atan2(0, 0) is 0, the angle of direction (0, 1); (0, -1) is pi.
Atan2(y, x) ==
    IF ~IsFin(y) \/ ~IsFin(x) THEN [k |-> "nan", s |-> 0, c |-> 0, unit |-> "rad"]
    ELSE LET s == y.a * x.d
             c == x.a * y.d
             g == Gcd(s, c)
         IN  IF g = 0 THEN [k |-> "ang", s |-> 0, c |-> 1, unit |-> "rad"]
             ELSE [k |-> "ang", s |-> s \div g, c |-> c \div g, unit |-> "rad"]

\* np.degrees: the same angle, measured in degrees
Degrees(ang) == [ang EXCEPT !.unit = "deg"]

\* 10^7 * tan(t degrees), rounded, for the thresholds the model compares with
TanE7(t) == CASE t = 1 -> 174551
              [] t = 5 -> 874887
              [] t = 30 -> 5773503
              [] t = 45 -> 10000000
              [] t = 60 -> 17320508

\* theta < t for an angle theta in (-180, 180] degrees and a number t of degrees
DegLess(ang, t) ==
    IF ang.k = "nan" THEN FALSE
    ELSE IF t > 180 THEN TRUE
    ELSE IF t <= -180 THEN FALSE
    ELSE IF t = 90 THEN ang.s < 0 \/ (ang.s = 0 /\ ang.c > 0) \/ (ang.s > 0 /\ ang.c > 0)
    ELSE \/ ang.s < 0
         \/ ang.s = 0 /\ ang.c > 0
         \/ ang.s > 0 /\ ang.c > 0 /\ ang.s * 10000000 < ang.c * TanE7(t)

\* angle < t, the angle being a float in the unit it carries (1 rad > 57 deg)
AngleLess(ang, t) ==
    IF ang.unit = "deg" THEN DegLess(ang, t) ELSE DegLess(ang, (t * 57296) \div 1000)

---------------------------------------------------------------------------
(* GeometryUtils *)

\* a point or vector of integers as a pair of numbers
V2(x, y) == <<Q(x), Q(y)>>

\* np.cross of two 3-vectors
Cross3(u, v) ==
    << Sub(Mul(u[2], v[3]), Mul(u[3], v[2])),
       Sub(Mul(u[3], v[1]), Mul(u[1], v[3])),
       Sub(Mul(u[1], v[2]), Mul(u[2], v[1])) >>

\* Det with a plus for the minus
Det_SignSlip(v1, v2) == Add(Mul(v1[1], v2[2]), Mul(v1[2], v2[1]))

\* np.linalg.det([v1, v2])
Det(v1, v2) == Sub(Mul(v1[1], v2[2]), Mul(v1[2], v2[1]))

\* np.dot(v1, v2)
Dot(v1, v2) == Add(Mul(v1[1], v2[1]), Mul(v1[2], v2[2]))

vector(p1, p2) == <<Sub(p1[1], p2[1]), Sub(p1[2], p2[2])>>

get_angle(v1, v2) == Degrees(Atan2(Det(v1, v2), Dot(v1, v2)))

get_vector_length(v) == Sqrt(Add(Mul(v[1], v[1]), Mul(v[2], v[2])))

\* normalize_vector guarding the zero vector, which it returns unchanged
normalize_vector_Guarded(v) ==
    LET len == Sqrt(Add(Mul(v[1], v[1]), Mul(v[2], v[2])))
    IN  IF IsZero(len) THEN v ELSE <<Div(v[1], len), Div(v[2], len)>>

normalize_vector(v) ==
    LET len == get_vector_length(v)
    IN  <<Div(v[1], len), Div(v[2], len)>>

\* perpendicular_vector crossing with (0, 0, 1): the clockwise perpendicular
perpendicular_vector_Clockwise(v) == <<v[2], Neg(v[1])>>

\* perpendicular_vector returning its argument
perpendicular_vector_Parallel(v) == v

perpendicular_vector(v) ==
    SubSeq(Cross3(<<v[1], v[2], Q(0)>>, <<Q(0), Q(0), Q(-1)>>), 1, 2)

perpendicular_normalized_vector_to_straight_line(v) ==
    normalize_vector(perpendicular_vector(v))

crossing_point_for_two_lines(l1_p1, l1_p2, l2_p1, l2_p2) ==
    LET h(p) == <<p[1], p[2], Q(1)>>
        l1 == Cross3(h(l1_p1), h(l1_p2))
        l2 == Cross3(h(l2_p1), h(l2_p2))
        xyz == Cross3(l1, l2)
    IN  IF IsZero(xyz[3]) THEN <<PosInf, PosInf>>
        ELSE <<Round3(Div(xyz[1], xyz[3])), Round3(Div(xyz[2], xyz[3]))>>

get_a_point_on_a_line_closest_to_point(l1_p1, l1_p2, p) ==
    LET vec == perpendicular_normalized_vector_to_straight_line(
                   vector(l1_p1, l1_p2))
        p2 == <<Add(p[1], vec[1]), Add(p[2], vec[2])>>
    IN  crossing_point_for_two_lines(l1_p1, l1_p2, p, p2)

\* the literal the angles are compared with
HardTolerance == 5

is_point_roughly_on_the_line(lp1, lp2, p, tolerated_angle) ==
    LET a1 == get_angle(vector(lp1, lp2), vector(lp1, p))
        a2 == get_angle(vector(lp2, p), vector(lp2, p))
    IN  AngleLess(a1, HardTolerance) /\ AngleLess(a2, HardTolerance)

---------------------------------------------------------------------------
(* Track *)

Min(m, n) == IF m < n THEN m ELSE n

\* Reverse without the flip: the inner border appended in waypoint order
Reverse_NoFlip(s) == s

RECURSIVE Reverse(_)
Reverse(s) == IF s = <<>> THEN <<>> ELSE Append(Reverse(Tail(s)), Head(s))

\* waypoints[:, lo:hi] of an array of shape (Len(w), k): a slice never fails,
\* it keeps the columns lo..hi-1 that exist
Columns(w, k, lo, hi) == [i \in 1..Len(w) |-> SubSeq(w[i], lo + 1, Min(hi, k))]

\* Width of a slice taken to be hi - lo whatever the array holds
Width_Untruncated(k, lo, hi) == hi - lo

\* the width of waypoints[:, lo:hi]
Width(k, lo, hi) == IF Min(hi, k) > lo THEN Min(hi, k) - lo ELSE 0

\* Scale without the factor: the fields left in meters
Scale_Unscaled(rows) == rows

\* array * 100
Scale(rows) == [i \in 1..Len(rows) |-> [j \in 1..Len(rows[i]) |-> rows[i][j] * 100]]

\* The geometry library is shapely as setup.py asks for it (1.7, 1.8), where
\* a LineString is read as an array of its coordinates by np.vstack and
\* np.flipud.
\*
\* shapely LineString(array of shape (m, c)): "ok" or the exception raised.
\* The compiled constructor rejects fewer than 2 rows first; the plain one
\* takes 0 rows as the empty line and checks the row width before the row
\* count.  compiled tells which one the installation has.
LineString(m, c, compiled) ==
    IF compiled
    THEN IF m < 2 THEN "ValueError"
         ELSE IF c \notin {2, 3} THEN "AssertionError" ELSE "ok"
    ELSE IF m = 0 THEN "ok"
         ELSE IF c \notin {2, 3} THEN "AssertionError"
         ELSE IF m < 2 THEN "ValueError" ELSE "ok"

\* the exterior ring of shapely Polygon(shell): the shell, closed by a repeat
\* of its first point unless it ends with it
Polygon(shell) ==
    IF shell = <<>> \/ shell[1] = shell[Len(shell)] THEN shell
    ELSE Append(shell, shell[1])

\* Track.__init__(name, waypoints), waypoints of shape (Len(waypoints), k)
Track(name, waypoints, k, compiled) ==
    LET inner == LineString(Len(waypoints), Width(k, 2, 4), compiled)
        outer == LineString(Len(waypoints), Width(k, 4, 6), compiled)
    IN  IF inner # "ok" THEN [outcome |-> inner]
        ELSE IF outer # "ok" THEN [outcome |-> outer]
        ELSE [outcome |-> "ok",
              name |-> name,
              waypoints |-> waypoints,
              center_line |-> Scale(Columns(waypoints, k, 0, 2)),
              inner_border |-> Scale(Columns(waypoints, k, 2, 4)),
              outer_border |-> Scale(Columns(waypoints, k, 4, 6)),
              road_poly |-> Polygon(Columns(waypoints, k, 4, 6)
                                    \o Reverse(Columns(waypoints, k, 2, 4)))]

---------------------------------------------------------------------------
(* TrackIO *)

\* the string '.npy'
Npy == <<".", "n", "p", "y">>

\* str.endswith
EndsWith(s, suffix) ==
    /\ Len(s) >= Len(suffix)
    /\ SubSeq(s, Len(s) - Len(suffix) + 1, Len(s)) = suffix

\* track_name[:-4] after the endswith('.npy') test
StripNpy(track_name) ==
    IF EndsWith(track_name, Npy)
    THEN SubSeq(track_name, 1, Len(track_name) - 4)
    ELSE track_name

\* "%s/%s.npy" % (base_path, track_name)
NpyPath(base_path, track_name) == base_path \o <<"/">> \o track_name \o Npy

\* the default base_path, "./tracks"
DefaultBasePath == <<".", "/", "t", "r", "a", "c", "k", "s">>

\* the array stored in every track file of the model
DiskWaypoints == << <<0, 0, 0, 1, 0, -1>>, <<10, 0, 10, 1, 10, -1>> >>

\* np.load(path): the array, or FileNotFoundError
NpLoad(path, exists) ==
    IF exists THEN [outcome |-> "ok", read |-> path, waypoints |-> DiskWaypoints]
    ELSE [outcome |-> "FileNotFoundError", read |-> path]

get_track_waypoints(base_path, track_name, exists) ==
    NpLoad(NpyPath(base_path, StripNpy(track_name)), exists)

load_track(base_path, track_name, exists, compiled) ==
    LET stripped == StripNpy(track_name)
        loaded == get_track_waypoints(base_path, stripped, exists)
        track == Track(stripped, loaded.waypoints, Len(loaded.waypoints[1]),
                       compiled)
    IN  IF loaded.outcome # "ok" THEN loaded
        ELSE IF track.outcome # "ok"
             THEN [outcome |-> track.outcome, read |-> loaded.read]
        ELSE [outcome |-> "ok", read |-> loaded.read, track |-> track]

---------------------------------------------------------------------------
(* Inputs *)

\* sequences over S of length at most n
SeqsUpTo(S, n) == UNION {[1..m -> S] : m \in 0..n}

RECURSIVE Flatten(_)
Flatten(ss) == IF ss = <<>> THEN <<>> ELSE Head(ss) \o Flatten(Tail(ss))

\* waypoint rows, 7 columns wide: the two rows of the documented example, a
\* row of zeros, and two rows whose columns differ from one another
WaypointRows ==
    { <<0, 0, 0, 1, 0, -1, 0>>, <<10, 0, 10, 1, 10, -1, 0>>,
      <<0, 0, 0, 0, 0, 0, 0>>, <<1, 2, 3, 4, 5, 6, 7>>,
      <<3, 1, 4, 1, 5, 9, 2>> }

\* column counts of the arrays handed to Track
FieldCounts == {4, 5, 6, 7}

\* arrays of shape (n, k), n <= MaxN
WaypointArrays(k) ==
    {[i \in 1..Len(rows) |-> SubSeq(rows[i], 1, k)] :
        rows \in SeqsUpTo(WaypointRows, MaxN)}

TrackNames == {<<"m">>, <<"m", ".", "n", "p", "y">>}

\* pieces track names are made of
NameChunks == {<<"a">>, Npy, <<"n", "p", "y">>, <<".">>}

NameInputs == {Flatten(cs) : cs \in SeqsUpTo(NameChunks, MaxChunks)}

Points == {V2(x, y) : x \in 0..MaxCoord, y \in 0..MaxCoord}

LinePoints == {V2(x, y) : x \in 0..MaxLineCoord, y \in 0..MaxLineCoord}

Vectors == {V2(x, y) : x \in (-MaxLineCoord)..MaxLineCoord,
                       y \in (-MaxLineCoord)..MaxLineCoord}

ToleratedAngles == {1, 5, 45}

---------------------------------------------------------------------------
(* The state machine: a caller invokes one operation and reads its result *)

Init ==
    /\ pc = "idle"
    /\ op = "none"
    /\ args = <<>>
    /\ result = <<>>

\* a call that returned v
Ok(v) == [outcome |-> "ok", value |-> v]

Finish(o, a, r) ==
    /\ pc' = "done"
    /\ op' = o
    /\ args' = a
    /\ result' = r

\* the caller drops the result
Return ==
    /\ pc = "done"
    /\ pc' = "idle"
    /\ op' = "none"
    /\ args' = <<>>
    /\ result' = <<>>

NewTrack ==
    /\ pc = "idle"
    /\ \E name \in TrackNames, k \in FieldCounts, compiled \in BOOLEAN :
           \E w \in WaypointArrays(k) :
               Finish("Track",
                      [name |-> name, waypoints |-> w, k |-> k],
                      Track(name, w, k, compiled))

GetTrackWaypoints ==
    /\ pc = "idle"
    /\ \E t \in NameInputs, exists \in BOOLEAN :
           Finish("get_track_waypoints",
                  [base_path |-> DefaultBasePath, track_name |-> t],
                  get_track_waypoints(DefaultBasePath, t, exists))

LoadTrack ==
    /\ pc = "idle"
    /\ \E t \in NameInputs, exists \in BOOLEAN, compiled \in BOOLEAN :
           Finish("load_track",
                  [base_path |-> DefaultBasePath, track_name |-> t],
                  load_track(DefaultBasePath, t, exists, compiled))

GetAngle ==
    /\ pc = "idle"
    /\ \E v1 \in Vectors, v2 \in Vectors :
           Finish("get_angle", [v1 |-> v1, v2 |-> v2], Ok(get_angle(v1, v2)))

NormalizeVector ==
    /\ pc = "idle"
    /\ \E v \in Vectors :
           Finish("normalize_vector", [v |-> v], Ok(normalize_vector(v)))

PerpendicularVector ==
    /\ pc = "idle"
    /\ \E v \in Vectors :
           Finish("perpendicular_vector", [v |-> v], Ok(perpendicular_vector(v)))

PerpendicularNormalized ==
    /\ pc = "idle"
    /\ \E v \in Vectors :
           Finish("perpendicular_normalized_vector_to_straight_line", [v |-> v],
                  Ok(perpendicular_normalized_vector_to_straight_line(v)))

CrossingPoint ==
    /\ pc = "idle"
    /\ \E l1_p1 \in Points, l1_p2 \in Points, l2_p1 \in Points, l2_p2 \in Points :
           Finish("crossing_point_for_two_lines",
                  [l1_p1 |-> l1_p1, l1_p2 |-> l1_p2, l2_p1 |-> l2_p1, l2_p2 |-> l2_p2],
                  Ok(crossing_point_for_two_lines(l1_p1, l1_p2, l2_p1, l2_p2)))

ClosestPoint ==
    /\ pc = "idle"
    /\ \E l1_p1 \in LinePoints, l1_p2 \in LinePoints, p \in LinePoints :
           Finish("get_a_point_on_a_line_closest_to_point",
                  [l1_p1 |-> l1_p1, l1_p2 |-> l1_p2, p |-> p],
                  Ok(get_a_point_on_a_line_closest_to_point(l1_p1, l1_p2, p)))

RoughlyOnTheLine ==
    /\ pc = "idle"
    /\ \E lp1 \in LinePoints, lp2 \in LinePoints, p \in LinePoints,
          tol \in ToleratedAngles :
           Finish("is_point_roughly_on_the_line",
                  [lp1 |-> lp1, lp2 |-> lp2, p |-> p, tolerated_angle |-> tol],
                  Ok(is_point_roughly_on_the_line(lp1, lp2, p, tol)))

NextTrack == NewTrack \/ Return

NextIO == GetTrackWaypoints \/ LoadTrack \/ Return

NextGeometry ==
    \/ GetAngle
    \/ NormalizeVector
    \/ PerpendicularVector
    \/ PerpendicularNormalized
    \/ CrossingPoint
    \/ ClosestPoint
    \/ RoughlyOnTheLine
    \/ Return

\* Track construction
SpecTrack == Init /\ [][NextTrack]_vars

\* TrackIO
SpecIO == Init /\ [][NextIO]_vars

\* GeometryUtils
SpecGeometry == Init /\ [][NextGeometry]_vars

Next == NextTrack \/ NextIO \/ NextGeometry

Spec == Init /\ [][Next]_vars

---------------------------------------------------------------------------
(* Claims about Track, checked under SpecTrack *)

IsTrackCall == pc = "done" /\ op = "Track"

\* the documented example: two waypoints, in meters
ExampleWaypoints == << <<0, 0, 0, 1, 0, -1>>, <<10, 0, 10, 1, 10, -1>> >>

\* center_line, inner_border and outer_border are the three column pairs of
\* w times 100, row by row
ScaledFieldsOf(t, w) ==
    /\ Len(t.center_line) = Len(w)
    /\ Len(t.inner_border) = Len(w)
    /\ Len(t.outer_border) = Len(w)
    /\ \A i \in 1..Len(w) :
           /\ t.center_line[i] = <<100 * w[i][1], 100 * w[i][2]>>
           /\ t.inner_border[i] = <<100 * w[i][3], 100 * w[i][4]>>
           /\ t.outer_border[i] = <<100 * w[i][5], 100 * w[i][6]>>

\* C1 as stated: for every waypoint sequence w of n records with 6 fields,
\* Track(name, w) yields center_line, inner_border and outer_border of length
\* n with center_line[i] = 100 * w[i][0..1], inner_border[i] = 100 * w[i][2..3]
\* and outer_border[i] = 100 * w[i][4..5].
C1_EveryWaypointSequenceYieldsScaledFields ==
    (IsTrackCall /\ args.k = 6) =>
        /\ result.outcome = "ok"
        /\ ScaledFieldsOf(result, args.waypoints)

\* C1 amended: for every waypoint sequence w of n >= 2 records with 6 fields,
\* Track(name, w) yields center_line, inner_border and outer_border of length
\* n, in waypoint order, each point 100 times the matching column pair of w.
C1_ScaledFields ==
    (IsTrackCall /\ args.k = 6 /\ Len(args.waypoints) >= 2) =>
        /\ result.outcome = "ok"
        /\ ScaledFieldsOf(result, args.waypoints)

C1_Witness ==
    /\ IsTrackCall
    /\ args.waypoints = ExampleWaypoints
    /\ result.outcome = "ok"
    /\ result.center_line = << <<0, 0>>, <<1000, 0>> >>
    /\ result.inner_border = << <<0, 100>>, <<1000, 100>> >>
    /\ result.outer_border = << <<0, -100>>, <<1000, -100>> >>

\* C2 as stated: the ring of road_poly is the Track's outer_border points in
\* waypoint order followed by the Track's inner_border points in reversed
\* order, 2*n points in all.
C2_RingIsScaledBorders ==
    (IsTrackCall /\ result.outcome = "ok") =>
        /\ result.road_poly = result.outer_border \o Reverse(result.inner_border)
        /\ Len(result.road_poly) = 2 * Len(args.waypoints)

\* C2 amended: the ring of road_poly starts with the outer points of the
\* waypoints as given (w[i][4..5], not multiplied by 100) in waypoint order,
\* followed by the inner points as given (w[i][2..3]) in reversed waypoint
\* order; these are 2*n points, and the ring has one more, a repeat of its
\* first point, exactly when the first outer point differs from the first
\* inner point.
C2_RingIsUnscaledOuterThenReversedInner ==
    (IsTrackCall /\ result.outcome = "ok") =>
        LET w == args.waypoints
            n == Len(w)
            ring == result.road_poly
            closed == n = 0 \/ <<w[1][5], w[1][6]>> = <<w[1][3], w[1][4]>>
        IN  /\ Len(ring) = IF closed THEN 2 * n ELSE 2 * n + 1
            /\ \A i \in 1..n :
                   /\ ring[i] = <<w[i][5], w[i][6]>>
                   /\ ring[n + i] = <<w[n + 1 - i][3], w[n + 1 - i][4]>>
            /\ ~closed => ring[2 * n + 1] = ring[1]

C2_Witness ==
    /\ IsTrackCall
    /\ args.waypoints = ExampleWaypoints
    /\ result.outcome = "ok"
    /\ result.road_poly =
           << <<0, -1>>, <<10, -1>>, <<10, 1>>, <<0, 1>>, <<0, -1>> >>

\* C6 as stated: Track construction succeeds for every sequence of records
\* with exactly 6 fields, of any record count, and ends in
\* InvalidWaypointFormat for every sequence whose records have another field
\* count.
C6_FailsIffNotSixColumns ==
    IsTrackCall =>
        /\ args.k = 6 => result.outcome = "ok"
        /\ args.k # 6 => result.outcome = "InvalidWaypointFormat"

\* C6 amended: Track construction succeeds for every sequence of at least 2
\* records with at least 6 fields, whatever the values and whether or not the
\* first and last record coincide or adjacent records are identical (fields
\* after the sixth are ignored); it fails with the geometry library's
\* ValueError for a sequence of exactly 1 such record, and with the library's
\* ValueError or AssertionError for 1 or more records of fewer than 6 fields;
\* it never ends in InvalidWaypointFormat.
C6_FailsOnShortOrNarrowInput ==
    IsTrackCall =>
        LET n == Len(args.waypoints)
        IN  /\ (n >= 2 /\ args.k >= 6) => result.outcome = "ok"
            /\ (n = 1 /\ args.k >= 6) => result.outcome = "ValueError"
            /\ (n >= 1 /\ args.k < 6) =>
                   result.outcome \in {"ValueError", "AssertionError"}
            /\ result.outcome # "InvalidWaypointFormat"

\* two identical records, so first = last and adjacent records coincide
C6_Witness ==
    /\ IsTrackCall
    /\ args.waypoints = << <<1, 2, 3, 4, 5, 6>>, <<1, 2, 3, 4, 5, 6>> >>
    /\ result.outcome = "ok"

---------------------------------------------------------------------------
(* Claims about TrackIO, checked under SpecIO *)

\* C7: get_track_waypoints(t) and load_track(t) read base_path/S.npy, S being
\* t with one trailing '.npy' removed if present, and the Track that
\* load_track(t) returns has name S.
C7_ReadsNameWithOneSuffixRemoved ==
    (pc = "done" /\ op \in {"get_track_waypoints", "load_track"}) =>
        LET t == args.track_name
            n == Len(t)
            S == IF n >= 4 /\ <<t[n - 3], t[n - 2], t[n - 1], t[n]>> = Npy
                 THEN [i \in 1..(n - 4) |-> t[i]]
                 ELSE t
        IN  /\ result.read = args.base_path \o <<"/">> \o S \o Npy
            /\ (op = "load_track" /\ result.outcome = "ok") =>
                   result.track.name = S

---------------------------------------------------------------------------
(* Claims about GeometryUtils, checked under SpecGeometry *)

\* the integer a number of the inputs stands for
IntOf(x) == x.a

\* thousandths in a number with at most 3 decimals
Milli(x) == x.a * (1000 \div x.d)

HasThreeDecimals(x) == IsRational(x) /\ 1000 % x.d = 0

\* m / 1000 is n / q rounded to 3 decimals (q # 0)
IsRounded(m, n, q) == 2 * Abs(1000 * n - m * q) <= Abs(q)

IsCrossingCall == pc = "done" /\ op = "crossing_point_for_two_lines"

\* C3: crossing_point_for_two_lines never raises; it returns (+inf, +inf) when
\* the two lines have no unique intersection (their directions have a zero
\* cross product) and otherwise the intersection point of the two infinite
\* lines rounded to 3 decimals.
C3_CrossingPoint ==
    IsCrossingCall =>
        LET p1x == IntOf(args.l1_p1[1])
            p1y == IntOf(args.l1_p1[2])
            d1x == IntOf(args.l1_p2[1]) - p1x
            d1y == IntOf(args.l1_p2[2]) - p1y
            q1x == IntOf(args.l2_p1[1])
            q1y == IntOf(args.l2_p1[2])
            d2x == IntOf(args.l2_p2[1]) - q1x
            d2y == IntOf(args.l2_p2[2]) - q1y
            D == d1x * d2y - d1y * d2x
            \* the point p1 + (T / D) * d1 lies on both lines
            T == (q1x - p1x) * d2y - (q1y - p1y) * d2x
            r == result.value
        IN  /\ result.outcome = "ok"
            /\ D = 0 => r = <<PosInf, PosInf>>
            /\ D # 0 =>
                   /\ HasThreeDecimals(r[1]) /\ HasThreeDecimals(r[2])
                   /\ IsRounded(Milli(r[1]), p1x * D + T * d1x, D)
                   /\ IsRounded(Milli(r[2]), p1y * D + T * d1y, D)

\* (0,0)-(1,2) and (0,1)-(2,2) meet at (2/3, 4/3), which 3 decimals do not hold
C3_Witness ==
    /\ IsCrossingCall
    /\ args = [l1_p1 |-> V2(0, 0), l1_p2 |-> V2(1, 2),
               l2_p1 |-> V2(0, 1), l2_p2 |-> V2(2, 2)]
    /\ result.value = <<Fin(667, 0, 1000, 1), Fin(1333, 0, 1000, 1)>>

IsClosestCall == pc = "done" /\ op = "get_a_point_on_a_line_closest_to_point"

\* C4: for distinct l1_p1, l1_p2 and every p the result is the foot of the
\* perpendicular from p onto the line through l1_p1 and l1_p2, that is
\* l1_p1 + ((p - l1_p1).d / d.d) * d with d = l1_p2 - l1_p1, rounded to 3
\* decimals, and never (+inf, +inf).
C4_FootOfPerpendicular ==
    (IsClosestCall /\ args.l1_p1 # args.l1_p2) =>
        LET p1x == IntOf(args.l1_p1[1])
            p1y == IntOf(args.l1_p1[2])
            dx == IntOf(args.l1_p2[1]) - p1x
            dy == IntOf(args.l1_p2[2]) - p1y
            dd == dx * dx + dy * dy
            pd == (IntOf(args.p[1]) - p1x) * dx + (IntOf(args.p[2]) - p1y) * dy
            r == result.value
        IN  /\ result.outcome = "ok"
            /\ r # <<PosInf, PosInf>>
            /\ HasThreeDecimals(r[1]) /\ HasThreeDecimals(r[2])
            /\ IsRounded(Milli(r[1]), p1x * dd + pd * dx, dd)
            /\ IsRounded(Milli(r[2]), p1y * dd + pd * dy, dd)

\* the foot of (1, 0) on the line through (0, 0) and (2, 3) is (4/13, 6/13),
\* which 3 decimals do not hold
C4_Witness ==
    /\ IsClosestCall
    /\ args = [l1_p1 |-> V2(0, 0), l1_p2 |-> V2(2, 3), p |-> V2(1, 0)]
    /\ result.value = <<Fin(308, 0, 1000, 1), Fin(462, 0, 1000, 1)>>

\* the calls that normalise a zero-length vector
NormalisesZeroVector ==
    /\ pc = "done"
    /\ \/ /\ op \in {"normalize_vector",
                     "perpendicular_normalized_vector_to_straight_line"}
          /\ args.v = V2(0, 0)
       \/ /\ op = "get_a_point_on_a_line_closest_to_point"
          /\ args.l1_p1 = args.l1_p2

\* C5 as stated: normalize_vector and
\* perpendicular_normalized_vector_to_straight_line of (0,0), and
\* get_a_point_on_a_line_closest_to_point with l1_p1 = l1_p2, end in the error
\* DegenerateVectorError.
C5_ZeroVectorRaises ==
    NormalisesZeroVector => result.outcome = "DegenerateVectorError"

\* C5 amended: these calls raise no error; each returns the pair (nan, nan),
\* which is neither a vector or point of numbers nor the (+inf, +inf)
\* sentinel.
C5_ZeroVectorGivesNaN ==
    NormalisesZeroVector =>
        /\ result.outcome = "ok"
        /\ result.value = <<NaN, NaN>>

C5_Witness ==
    /\ pc = "done"
    /\ op = "get_a_point_on_a_line_closest_to_point"
    /\ args = [l1_p1 |-> V2(1, 1), l1_p2 |-> V2(1, 1), p |-> V2(2, 0)]
    /\ result.value = <<NaN, NaN>>

\* the angle 0 degrees
ZeroDegrees == [k |-> "ang", s |-> 0, c |-> 1, unit |-> "deg"]

\* the angle -theta (theta not 180 degrees)
Opposite(ang) == [ang EXCEPT !.s = -ang.s]

\* C8: get_angle(v, v) = 0 for every non-zero v, and for non-zero,
\* non-parallel v1, v2 get_angle(v1, v2) = -get_angle(v2, v1), with the sign
\* of det([v1, v2]).
C8_AngleAntisymmetric ==
    (pc = "done" /\ op = "get_angle") =>
        LET v1 == args.v1
            v2 == args.v2
            det == IntOf(v1[1]) * IntOf(v2[2]) - IntOf(v1[2]) * IntOf(v2[1])
        IN  /\ (v1 = v2 /\ v1 # V2(0, 0)) => result.value = ZeroDegrees
            /\ det # 0 =>
                   /\ result.value = Opposite(get_angle(v2, v1))
                   /\ Sgn(result.value.s) = Sgn(det)

C8_Witness ==
    /\ pc = "done" /\ op = "get_angle"
    /\ args = [v1 |-> V2(2, 1), v2 |-> V2(-1, 3)]
    /\ result.value = [k |-> "ang", s |-> 7, c |-> 1, unit |-> "deg"]
    /\ get_angle(args.v2, args.v1) = [k |-> "ang", s |-> -7, c |-> 1, unit |-> "deg"]

IsPerpendicularCall == pc = "done" /\ op = "perpendicular_vector"

\* C9 as stated: perpendicular_vector((x, y)) is (y, -x), v rotated by -90
\* degrees (clockwise), and det([v, perpendicular_vector(v)]) is negative for
\* non-zero v.
C9_RotatedClockwise ==
    IsPerpendicularCall =>
        LET x == IntOf(args.v[1])
            y == IntOf(args.v[2])
            r == result.value
        IN  /\ r = V2(y, -x)
            /\ (x # 0 \/ y # 0) => x * IntOf(r[2]) - y * IntOf(r[1]) < 0

\* C9 amended: perpendicular_vector((x, y)) is (-y, x), v rotated by +90
\* degrees (counter-clockwise): it is orthogonal to v, has the length of v,
\* and det([v, perpendicular_vector(v)]) is positive for non-zero v.
C9_RotatedCounterClockwise ==
    IsPerpendicularCall =>
        LET x == IntOf(args.v[1])
            y == IntOf(args.v[2])
            r == result.value
        IN  /\ r = V2(-y, x)
            /\ IsRational(r[1]) /\ IsRational(r[2])
            /\ x * IntOf(r[1]) + y * IntOf(r[2]) = 0
            /\ IntOf(r[1]) * IntOf(r[1]) + IntOf(r[2]) * IntOf(r[2]) = x * x + y * y
            /\ (x # 0 \/ y # 0) => x * IntOf(r[2]) - y * IntOf(r[1]) > 0

C9_Witness ==
    /\ IsPerpendicularCall
    /\ args.v = V2(1, 0)
    /\ result.value = V2(0, 1)

\* C10: is_point_roughly_on_the_line(lp1, lp2, p, tolerated_angle) is true
\* only if the angle at lp1 between lp2 - lp1 and p - lp1 is at most
\* tolerated_angle degrees in magnitude, in either rotation direction.
C10_TrueOnlyWithinToleratedAngle ==
    (pc = "done" /\ op = "is_point_roughly_on_the_line" /\ result.value) =>
        LET ux == IntOf(args.lp2[1]) - IntOf(args.lp1[1])
            uy == IntOf(args.lp2[2]) - IntOf(args.lp1[2])
            wx == IntOf(args.p[1]) - IntOf(args.lp1[1])
            wy == IntOf(args.p[2]) - IntOf(args.lp1[2])
            det == ux * wy - uy * wx
            dot == ux * wx + uy * wy
        IN  \/ det = 0 /\ dot >= 0
            \/ dot > 0 /\ Abs(det) * 10000000 <= dot * TanE7(args.tolerated_angle)

=============================================================================
